---------------------------- MODULE Spec2Model ----------------------------
(***************************************************************************)
(* Model of the net-primary-production pipeline: compute_npp (src/npp.py), *)
(* load_clip_reproject and merge_tiles (src/raster_ops.py),                *)
(* ProductDownloader (src/download_LAI_FAPAR.py) and the validators        *)
(* (src/validation.py).                                                    *)
(*                                                                         *)
(* Numbers are exact rationals <<n, d>> in lowest terms with d >= 0;       *)
(* d = 0 encodes the IEEE specials: <<0,0>> is NaN, <<1,0>> is +inf and    *)
(* <<-1,0>> is -inf.  In compute_npp a raster is the sequence of its pixel  *)
(* values in raster order and its length stands for its grid; in           *)
(* raster_ops a raster carries its CRS and its values by coordinate.       *)
(***************************************************************************)
EXTENDS Integers, Sequences, FiniteSets

\* ------------------------------------------------------------- bounds
MaxPix == 2

\* ------------------------------------------------- float arithmetic
RECURSIVE GCD(_, _)
GCD(a, b) == IF b = 0 THEN a ELSE GCD(b, a % b)

Abs(x) == IF x < 0 THEN -x ELSE x

Sign(x) == IF x < 0 THEN -1 ELSE IF x = 0 THEN 0 ELSE 1

Norm(n, d) ==
    IF d = 0 THEN <<Sign(n), 0>>
    ELSE LET g == GCD(Abs(n), Abs(d))
             s == IF d < 0 THEN -1 ELSE 1
         IN  <<(s * n) \div g, (s * d) \div g>>

R(n, d) == Norm(n, d)

NaN == <<0, 0>>

Zero == <<0, 1>>

IsNaN(x) == x = NaN

IsFinite(x) == x[2] # 0

\* x - y
FSub(x, y) ==
    IF IsNaN(x) \/ IsNaN(y) THEN NaN
    ELSE IF ~IsFinite(x) /\ ~IsFinite(y) THEN (IF x = y THEN NaN ELSE x)
    ELSE IF ~IsFinite(x) THEN x
    ELSE IF ~IsFinite(y) THEN <<-y[1], 0>>
    ELSE Norm(x[1] * y[2] - y[1] * x[2], x[2] * y[2])

\* x * y  (inf * 0 = NaN falls out of the encoding)
FMul(x, y) ==
    IF x[2] = 0 \/ y[2] = 0 THEN Norm(x[1] * y[1], 0)
    ELSE LET g1 == GCD(Abs(x[1]), y[2])
             g2 == GCD(Abs(y[1]), x[2])
         IN  Norm((x[1] \div g1) * (y[1] \div g2), (x[2] \div g2) * (y[2] \div g1))

\* x / y  (finite / 0 = +-inf, 0 / 0 = NaN)
FDiv(x, y) ==
    IF IsNaN(x) \/ IsNaN(y) THEN NaN
    ELSE IF y[1] < 0 THEN Norm(-(x[1] * y[2]), x[2] * (-y[1]))
    ELSE Norm(x[1] * y[2], x[2] * y[1])

\* x < y, FALSE when either side is NaN
FLess(x, y) ==
    /\ ~IsNaN(x)
    /\ ~IsNaN(y)
    /\ x # y
    /\ IF IsFinite(x) /\ IsFinite(y) THEN x[1] * y[2] < y[1] * x[2]
       ELSE IF ~IsFinite(x) THEN x[1] < 0
       ELSE y[1] > 0

\* astype(int): truncation toward zero
AsInt(x) == IF x[1] >= 0 THEN x[1] \div x[2] ELSE -((-x[1]) \div x[2])

\* DataArray.clip(min=0): NaN stays NaN
ClipMin0(x) == IF IsNaN(x) THEN NaN ELSE IF FLess(x, Zero) THEN Zero ELSE x


\* x + y
FAdd(x, y) == FSub(x, <<-y[1], y[2]>>)

\* ------------------------------------------------------ array helpers
RECURSIVE Insert(_, _)
Insert(v, s) ==
    IF s = <<>> THEN <<v>>
    ELSE IF FLess(Head(s), v) THEN <<Head(s)>> \o Insert(v, Tail(s))
    ELSE <<v>> \o s

RECURSIVE SortAsc(_)
SortAsc(s) == IF s = <<>> THEN <<>> ELSE Insert(Head(s), SortAsc(Tail(s)))

RECURSIVE Dedup(_)
Dedup(s) ==
    IF Len(s) <= 1 THEN s
    ELSE IF s[1] = s[2] THEN Dedup(Tail(s))
    ELSE <<s[1]>> \o Dedup(Tail(s))

NotNaN(v) == ~IsNaN(v)

\* values[~np.isnan(values)]
DropNaN(s) == SelectSeq(s, NotNaN)

\* np.unique: the sorted distinct values
Unique(s) == Dedup(SortAsc(s))

\* np.nanmedian: NaN for an all-NaN array
NanMedian(s) ==
    LET t == SortAsc(DropNaN(s))
        k == Len(t)
    IN  IF k = 0 THEN NaN
        ELSE IF k % 2 = 1 THEN t[(k + 1) \div 2]
        ELSE FDiv(FAdd(t[k \div 2], t[k \div 2 + 1]), R(2, 1))

\* a.where(cond, other)
Where(a, cond, other) == [i \in DOMAIN a |-> IF cond[i] THEN a[i] ELSE other[i]]

\* xr.full_like(a, v)
FullLike(a, v) == [i \in DOMAIN a |-> v]

\* a.where(mask): NaN where the mask is False
WhereMask(a, mask) == Where(a, mask, FullLike(a, NaN))

\* the source pixel whose cell holds the centre of pixel i of an n-pixel grid
\* over the same extent as an m-pixel source (nearest-neighbour resampling)
Nearest(i, n, m) ==
    LET j == (((2 * i - 1) * m) \div (2 * n)) + 1 IN IF j > m THEN m ELSE j

\* src.rio.reproject_match(dst): src resampled onto the grid of dst
ReprojectMatch(src, dst) ==
    [i \in 1..Len(dst) |-> src[Nearest(i, Len(dst), Len(src))]]

\* mask.sum()
MaskSum(mask) == Cardinality({i \in DOMAIN mask : mask[i]})

\* ------------------------------------------------------------ state
\* compute_npp: its position, arguments, the input files read so far, its
\* locals and the output directory
VARIABLES npc, exc, conversion_df, missing, files,
          lai, fapar, temp, ssrd, estk,
          npp_result, valid_classes, ci, fs, fs0

nppVars == <<npc, exc, conversion_df, missing, files, lai, fapar, temp, ssrd,
             estk, npp_result, valid_classes, ci, fs, fs0>>

\* load_clip_reproject and merge_tiles: position, arguments and locals
VARIABLES rpc, rexc, call, tile_paths, boundary, target_crs, scale_factor,
          mask_nan, out_given, ti, da, bnd, processed, merged, mi, rfs

rasterVars == <<rpc, rexc, call, tile_paths, boundary, target_crs,
                scale_factor, mask_nan, out_given, ti, da, bnd, processed,
                merged, mi, rfs>>

\* ProductDownloader.download_all: position, configuration, loop indices,
\* the downloads attempted, saved and failed
VARIABLES dpc, products, tiles, dates, pidx, tidx, didx, attempts, saved,
          failed, faults

dlVars == <<dpc, products, tiles, dates, pidx, tidx, didx, attempts, saved,
            failed, faults>>

\* the validators: which one runs, the file, the arguments, the outcome
VARIABLES vpc, vfn, vfile, path_is_str, xr_has_open_rasterio, expected_crs,
          expected_classes, min_val, max_val, vret, vexc

valVars == <<vpc, vfn, vfile, path_is_str, xr_has_open_rasterio, expected_crs,
             expected_classes, min_val, max_val, vret, vexc>>

vars == <<nppVars, rasterVars, dlVars, valVars>>

\* what each entry point leaves alone
nppOthers == <<rasterVars, dlVars, valVars>>

rasterOthers == <<nppVars, dlVars, valVars>>

dlOthers == <<nppVars, rasterVars, valVars>>

valOthers == <<nppVars, rasterVars, dlVars>>

\* ------------------------------------------------------- compute_npp
InputNames == {"lai", "fapar", "temp", "ssrd", "estk"}

KelvinOffset == R(5463, 20)

KelvinThreshold == 100

\* rasters of length 1..MaxPix over a value set
RastersOver(vals) == UNION {[1..n -> vals] : n \in 1..MaxPix}

LaiRasters == RastersOver({R(3, 1)})

\* FAPAR 0.5 everywhere, with at most one no-data pixel
FaparRasters ==
    {f \in RastersOver({R(1, 2), NaN}) : Cardinality({i \in DOMAIN f : IsNaN(f[i])}) <= 1}

\* 15 degrees Celsius, 288.15 Kelvin, no-data
TempRasters == RastersOver({R(15, 1), R(5763, 20), NaN})

SsrdRasters == {[j \in 1..m |-> R(100 * (j + 1), 1)] : m \in 1..MaxPix}

\* classes 10 and 20, a value between two codes, no-data
EstkRasters == RastersOver({R(10, 1), R(20, 1), R(21, 2), NaN})

Row(e, lo, hi) == [eps_max |-> e, T_min |-> lo, T_max |-> hi]

Row10 == Row(R(6, 5), R(0, 1), R(30, 1))

Row20 == Row(R(1, 1), R(0, 1), R(10, 1))

\* conversion tables: a DataFrame indexed by class code
Tables ==
    { [c \in {} |-> Row10],
      [c \in {10} |-> Row10],
      [c \in {10, 20} |-> IF c = 10 THEN Row10 ELSE Row20] }

NoRaster == <<>>

NppInit ==
    /\ npc = "load_lai"
    /\ exc = "none"
    /\ conversion_df \in Tables
    /\ missing \in SUBSET InputNames
    /\ files = [f \in InputNames |-> NoRaster]
    /\ lai = NoRaster /\ fapar = NoRaster /\ temp = NoRaster
    /\ ssrd = NoRaster /\ estk = NoRaster
    /\ npp_result = NoRaster
    /\ valid_classes = <<>>
    /\ ci = 1
    /\ fs = [dir |-> FALSE, file |-> FALSE]
    /\ fs0 = fs

\* rxr.open_rasterio(path, masked=True).squeeze() on a missing file
OpenFails(name) ==
    /\ name \in missing
    /\ npc' = "raised"
    /\ exc' = "RasterioIOError"
    /\ UNCHANGED <<files, lai, fapar, temp, ssrd, estk>>

\* mutant of LoadLai: the output directory is made before the inputs are opened
LoadLaiAfterMkdir ==
    /\ npc = "load_lai"
    /\ fs' = [fs EXCEPT !.dir = TRUE]
    /\ \/ OpenFails("lai")
       \/ /\ "lai" \notin missing
          /\ \E r \in LaiRasters :
                /\ lai' = r
                /\ files' = [files EXCEPT !["lai"] = r]
          /\ npc' = "load_fapar"
          /\ UNCHANGED <<exc, fapar, temp, ssrd, estk>>
    /\ UNCHANGED <<conversion_df, missing, npp_result, valid_classes, ci, fs0>>
    /\ UNCHANGED nppOthers

LoadLai ==
    /\ npc = "load_lai"
    /\ \/ OpenFails("lai")
       \/ /\ "lai" \notin missing
          /\ \E r \in LaiRasters :
                /\ lai' = r
                /\ files' = [files EXCEPT !["lai"] = r]
          /\ npc' = "load_fapar"
          /\ UNCHANGED <<exc, fapar, temp, ssrd, estk>>
    /\ UNCHANGED <<conversion_df, missing, npp_result, valid_classes, ci, fs, fs0>>
    /\ UNCHANGED nppOthers

\* LAI and FAPAR are products on one grid
LoadFapar ==
    /\ npc = "load_fapar"
    /\ \/ OpenFails("fapar")
       \/ /\ "fapar" \notin missing
          /\ \E r \in FaparRasters :
                /\ Len(r) = Len(lai)
                /\ fapar' = r
                /\ files' = [files EXCEPT !["fapar"] = r]
          /\ npc' = "load_temp"
          /\ UNCHANGED <<exc, lai, temp, ssrd, estk>>
    /\ UNCHANGED <<conversion_df, missing, npp_result, valid_classes, ci, fs, fs0>>
    /\ UNCHANGED nppOthers

LoadTemp ==
    /\ npc = "load_temp"
    /\ \/ OpenFails("temp")
       \/ /\ "temp" \notin missing
          /\ \E r \in TempRasters :
                /\ temp' = r
                /\ files' = [files EXCEPT !["temp"] = r]
          /\ npc' = "load_ssrd"
          /\ UNCHANGED <<exc, lai, fapar, ssrd, estk>>
    /\ UNCHANGED <<conversion_df, missing, npp_result, valid_classes, ci, fs, fs0>>
    /\ UNCHANGED nppOthers

\* temperature and radiation come from one climate grid
LoadSsrd ==
    /\ npc = "load_ssrd"
    /\ \/ OpenFails("ssrd")
       \/ /\ "ssrd" \notin missing
          /\ \E r \in SsrdRasters :
                /\ Len(r) = Len(temp)
                /\ ssrd' = r
                /\ files' = [files EXCEPT !["ssrd"] = r]
          /\ npc' = "load_estk"
          /\ UNCHANGED <<exc, lai, fapar, temp, estk>>
    /\ UNCHANGED <<conversion_df, missing, npp_result, valid_classes, ci, fs, fs0>>
    /\ UNCHANGED nppOthers

LoadEstk ==
    /\ npc = "load_estk"
    /\ \/ OpenFails("estk")
       \/ /\ "estk" \notin missing
          /\ \E r \in EstkRasters :
                /\ estk' = r
                /\ files' = [files EXCEPT !["estk"] = r]
          /\ npc' = "convert"
          /\ UNCHANGED <<exc, lai, fapar, temp, ssrd>>
    /\ UNCHANGED <<conversion_df, missing, npp_result, valid_classes, ci, fs, fs0>>
    /\ UNCHANGED nppOthers

\* median_temp > 100
IsKelvin(t) == FLess(R(KelvinThreshold, 1), NanMedian(t))

\* temp - 273.15
ToCelsius(t) == [i \in DOMAIN t |-> FSub(t[i], KelvinOffset)]

\* mutant of ConvertedTemp: the unit is decided pixel by pixel
ConvertedTempPerPixel(t) ==
    [i \in DOMAIN t |->
        IF FLess(R(KelvinThreshold, 1), t[i]) THEN FSub(t[i], KelvinOffset) ELSE t[i]]

ConvertedTemp(t) == IF IsKelvin(t) THEN ToCelsius(t) ELSE t

ConvertTemp ==
    /\ npc = "convert"
    /\ temp' = ConvertedTemp(temp)
    /\ npc' = "align"
    /\ UNCHANGED <<exc, conversion_df, missing, files, lai, fapar, ssrd, estk,
                   npp_result, valid_classes, ci, fs, fs0>>
    /\ UNCHANGED nppOthers

Align ==
    /\ npc = "align"
    /\ temp' = ReprojectMatch(temp, lai)
    /\ ssrd' = ReprojectMatch(ssrd, lai)
    /\ fapar' = ReprojectMatch(fapar, lai)
    /\ estk' = ReprojectMatch(estk, lai)
    /\ npc' = "prepare"
    /\ UNCHANGED <<exc, conversion_df, missing, files, lai,
                   npp_result, valid_classes, ci, fs, fs0>>
    /\ UNCHANGED nppOthers

\* np.unique(estk.values[~np.isnan(estk.values)]).astype(int)
EstkClasses(e) ==
    LET u == Unique(DropNaN(e)) IN [k \in DOMAIN u |-> AsInt(u[k])]

InTable(cls) == cls \in DOMAIN conversion_df

\* [cls for cls in estk_classes if cls in conversion_df.index]
ValidClasses(e) == SelectSeq(EstkClasses(e), InTable)

\* mutant of InitResult: the output starts as zeros
InitResultZeros(l) == FullLike(l, Zero)

\* xr.full_like(lai, np.nan)
InitResult(l) == FullLike(l, NaN)

Prepare ==
    /\ npc = "prepare"
    /\ npp_result' = InitResult(lai)
    /\ valid_classes' = ValidClasses(estk)
    /\ ci' = 1
    /\ npc' = "loop"
    /\ UNCHANGED <<exc, conversion_df, missing, files, lai, fapar, temp, ssrd,
                   estk, fs, fs0>>
    /\ UNCHANGED nppOthers

\* estk == cls
ClassMask(e, cls) == [i \in DOMAIN e |-> e[i] = R(cls, 1)]

\* ((temp_masked - t_min) * (t_max - temp_masked)) / ((t_max - t_min) ** 2)
RawTempFactor(t, t_min, t_max) ==
    FDiv(FMul(FSub(t, t_min), FSub(t_max, t)),
         FMul(FSub(t_max, t_min), FSub(t_max, t_min)))

\* mutant of TempFactor: the factor is not clipped at zero
TempFactorUnclipped(t, t_min, t_max) == RawTempFactor(t, t_min, t_max)

TempFactor(t, t_min, t_max) == ClipMin0(RawTempFactor(t, t_min, t_max))

\* npp_class for one class over the whole grid
NppClass(cls, mask) ==
    LET params == conversion_df[cls]
        temp_masked == WhereMask(temp, mask)
        fapar_masked == WhereMask(fapar, mask)
        ssrd_masked == WhereMask(ssrd, mask)
    IN  [i \in DOMAIN temp_masked |->
            FMul(FMul(FMul(params.eps_max, fapar_masked[i]), ssrd_masked[i]),
                 TempFactor(temp_masked[i], params.T_min, params.T_max))]

\* mutant of InsertClass: the mask is not negated
InsertClassSwapped(result, mask, npp_class) == Where(result, mask, npp_class)

\* npp_result.where(~mask, npp_class)
InsertClass(result, mask, npp_class) ==
    Where(result, [i \in DOMAIN mask |-> ~mask[i]], npp_class)

\* one iteration of "for cls in valid_classes"
ClassIter ==
    /\ npc = "loop"
    /\ ci <= Len(valid_classes)
    /\ LET cls == valid_classes[ci]
           mask == ClassMask(estk, cls)
       IN  \/ /\ MaskSum(mask) = 0
              /\ UNCHANGED npp_result
           \/ /\ MaskSum(mask) # 0
              /\ npp_result' = InsertClass(npp_result, mask, NppClass(cls, mask))
    /\ ci' = ci + 1
    /\ UNCHANGED <<npc, exc, conversion_df, missing, files, lai, fapar, temp,
                   ssrd, estk, valid_classes, fs, fs0>>
    /\ UNCHANGED nppOthers

\* ensure_dir(output_path.parent): mkdir(parents=True, exist_ok=True)
EnsureDir ==
    /\ npc = "loop"
    /\ ci > Len(valid_classes)
    /\ fs' = [fs EXCEPT !.dir = TRUE]
    /\ npc' = "to_raster"
    /\ UNCHANGED <<exc, conversion_df, missing, files, lai, fapar, temp, ssrd,
                   estk, npp_result, valid_classes, ci, fs0>>
    /\ UNCHANGED nppOthers

\* npp_result.rio.to_raster(str(output_path)); return npp_result
ToRaster ==
    /\ npc = "to_raster"
    /\ fs' = [fs EXCEPT !.file = TRUE]
    /\ npc' = "done"
    /\ UNCHANGED <<exc, conversion_df, missing, files, lai, fapar, temp, ssrd,
                   estk, npp_result, valid_classes, ci, fs0>>
    /\ UNCHANGED nppOthers

NppNext ==
    \/ LoadLai \/ LoadFapar \/ LoadTemp \/ LoadSsrd \/ LoadEstk
    \/ ConvertTemp \/ Align \/ Prepare \/ ClassIter \/ EnsureDir \/ ToRaster


\* --------------------------------------------------- compute_npp claims
\* compute_npp has returned its raster
Returned == npc = "done"

\* the class code of a pixel value, when it is a code of the conversion table
HasTableClass(v) == \E c \in DOMAIN conversion_df : v = R(c, 1)

TableClassOf(v) == CHOOSE c \in DOMAIN conversion_df : v = R(c, 1)

\* eps_max * FAPAR * radiation * max(0, ((T - T_min)(T_max - T)) / (T_max - T_min)^2)
ClaimedNpp(row, F, Rad, T) ==
    LET span == FSub(row.T_max, row.T_min)
        x == FDiv(FMul(FSub(T, row.T_min), FSub(row.T_max, T)), FMul(span, span))
        clamped == IF IsNaN(x) THEN NaN ELSE IF FLess(Zero, x) THEN x ELSE Zero
    IN  FMul(FMul(FMul(row.eps_max, F), Rad), clamped)

\* C1: in the returned raster, every pixel whose class code is in the conversion
\* table holds eps_max * FAPAR * radiation * max(0, temperature factor), from that
\* class's row and the aligned FAPAR, radiation and temperature of the same pixel.
C1_NppFormula ==
    Returned =>
        \A i \in DOMAIN estk :
            HasTableClass(estk[i]) =>
                npp_result[i] =
                    ClaimedNpp(conversion_df[TableClassOf(estk[i])],
                               fapar[i], ssrd[i], temp[i])

\* the spec's example: class 10, T = 15, FAPAR = 0.5, radiation = 200 gives 30.0
C1_Witness ==
    /\ Returned
    /\ \E i \in DOMAIN estk :
          /\ estk[i] = R(10, 1)
          /\ temp[i] = R(15, 1)
          /\ fapar[i] = R(1, 2)
          /\ ssrd[i] = R(200, 1)
          /\ npp_result[i] = R(30, 1)

\* C2: in the returned raster every pixel whose classification value is no-data or
\* is no code of the conversion table is NaN, and the raster has the LAI grid.
C2_AbsentClassIsNaN ==
    Returned =>
        /\ Len(npp_result) = Len(lai)
        /\ \A i \in DOMAIN estk :
              ~HasTableClass(estk[i]) => IsNaN(npp_result[i])

\* a class of the table got a value while a class outside the table stayed NaN,
\* on an LAI grid that differs from the grid of the temperature file
C2_Witness ==
    /\ Returned
    /\ Len(files["temp"]) # Len(lai)
    /\ \E i, j \in DOMAIN estk :
          /\ estk[i] = R(20, 1)
          /\ 20 \notin DOMAIN conversion_df
          /\ IsNaN(npp_result[i])
          /\ HasTableClass(estk[j])
          /\ ~IsNaN(npp_result[j])

\* the j-th smallest of the values of s, by counting
KthSmallest(s, j) ==
    CHOOSE v \in {s[i] : i \in DOMAIN s} :
        /\ Cardinality({i \in DOMAIN s : FLess(s[i], v)}) < j
        /\ Cardinality({i \in DOMAIN s : ~FLess(v, s[i])}) >= j

\* twice the median of the non-NaN values of a raster (NaN when there is none)
TwiceMedian(raw) ==
    LET s == DropNaN(raw)
        k == Len(s)
    IN  IF k = 0 THEN NaN
        ELSE IF k % 2 = 1 THEN FMul(R(2, 1), KthSmallest(s, (k + 1) \div 2))
        ELSE FAdd(KthSmallest(s, k \div 2), KthSmallest(s, k \div 2 + 1))

MedianAbove100(raw) == FLess(R(200, 1), TwiceMedian(raw))

\* the value the claim gives raw value v of a raster raw
ClaimedCelsius(raw, v) ==
    IF MedianAbove100(raw) THEN FSub(v, R(27315, 100)) ELSE v

\* C3: the unit is decided once per call from the median of the non-NaN raw
\* temperatures: above 100 every value used is raw - 273.15, otherwise every
\* value is the raw one (before alignment pixel by pixel, after it through the
\* nearest source pixel).
C3_KelvinByMedian ==
    LET raw == files["temp"] IN
    /\ npc = "align" => temp = [i \in DOMAIN raw |-> ClaimedCelsius(raw, raw[i])]
    /\ npc \in {"prepare", "loop", "to_raster", "done"} =>
          temp = [i \in DOMAIN lai |->
                     ClaimedCelsius(raw, raw[Nearest(i, Len(lai), Len(raw))])]

\* a raster mixing a Celsius-like and a Kelvin-like value: the median is above
\* 100, and the value below 100 was converted too
C3_Witness ==
    /\ npc = "align"
    /\ \E i, j \in DOMAIN temp :
          /\ files["temp"][i] = R(15, 1)
          /\ files["temp"][j] = R(5763, 20)
          /\ temp[i] = R(-5163, 20)
          /\ temp[j] = R(15, 1)

\* the aligned classification raster holds a class code that is no index of
\* the conversion table
HasClassOutsideTable ==
    \E i \in DOMAIN estk :
        /\ ~IsNaN(estk[i])
        /\ estk[i] = R(AsInt(estk[i]), 1)
        /\ AsInt(estk[i]) \notin DOMAIN conversion_df

\* C4: compute_npp raises KeyError when the classification raster holds a class
\* code that is missing from the conversion table (so it never returns then).
C4_KeyErrorOnMissingClass ==
    (npc \in {"loop", "to_raster", "done"} /\ ci > Len(valid_classes)
        /\ HasClassOutsideTable) => exc = "KeyError"

LoadPcs == {"load_lai", "load_fapar", "load_temp", "load_ssrd", "load_estk"}

\* C10: with an input raster missing the call never gets past loading: it ends
\* in an exception raised by a load, the output directory is not created and
\* no raster is written (the filesystem under output_path stays as it was).
C10_MissingInputFailsFast ==
    /\ missing # {} =>
          /\ npc \in LoadPcs \cup {"raised"}
          /\ fs = fs0
          /\ npp_result = NoRaster
    /\ npc = "raised" => (missing # {} /\ exc # "none" /\ fs = fs0)

\* the last of the five inputs is the missing one: four rasters were loaded
\* before the call failed
C10_Witness ==
    /\ npc = "raised"
    /\ missing = {"estk"}
    /\ ssrd # NoRaster
    /\ ~fs.dir /\ ~fs.file


\* ------------------------------------- load_clip_reproject, merge_tiles
\* A georeferenced raster: crs is the CRS of its spatial_ref coordinate, attrs
\* its attribute names, dims its dimensions, ys and xs its coordinate values
\* and v the pixel values by <<y, x>>.
MaxTiles == 2

CRSs == {"EPSG:4326", "EPSG:32631"}

\* the x coordinate of one place differs between the two CRSs by a fixed shift
CrsOffset(crs) == IF crs = "EPSG:4326" THEN 0 ELSE 10

Cells(ys, xs) == ys \X xs

MkRaster(crs, ys, xs, base, nodata) ==
    [crs |-> crs, attrs |-> {"_FillValue"}, dims |-> {"band", "y", "x"},
     ys |-> ys, xs |-> xs,
     v |-> [c \in Cells(ys, xs) |->
               IF c \in nodata THEN NaN ELSE R(base + 10 * c[1] + c[2], 1)]]

TileNames == {"A", "B", "C", "D", "E"}

\* the tile files on disk: A and B side by side, C across both with other
\* values and a no-data pixel, D a single-row raster, E in the other CRS at
\* the place of A
TileFile(name) ==
    CASE name = "A" -> MkRaster("EPSG:4326", {1, 2}, {1, 2}, 100, {})
      [] name = "B" -> MkRaster("EPSG:4326", {1, 2}, {3, 4}, 200, {})
      [] name = "C" -> MkRaster("EPSG:4326", {1, 2}, {2, 3}, 300, {<<1, 2>>})
      [] name = "D" -> MkRaster("EPSG:4326", {1}, {1, 2}, 400, {})
      [] name = "E" -> MkRaster("EPSG:32631", {1, 2}, {11, 12}, 500, {<<2, 12>>})

\* boundary polygons, as the set of pixel centres they cover
Boundaries ==
    { [crs |-> "EPSG:4326", cells |-> Cells({1, 2}, {1, 2, 3, 4})],
      [crs |-> "EPSG:4326", cells |-> Cells({1, 2}, {2, 3}) \cup {<<1, 1>>}],
      [crs |-> "EPSG:32631", cells |-> Cells({1}, {11, 12, 13, 14})],
      [crs |-> "EPSG:4326", cells |-> Cells({1, 2}, {7, 8})] }

Scales == {R(1, 1), R(100, 1)}

RECURSIVE SeqsUpTo(_, _)
SeqsUpTo(S, n) ==
    IF n = 0 THEN {<<>>}
    ELSE LET shorter == SeqsUpTo(S, n - 1)
         IN  shorter \cup {Append(q, e) : q \in shorter, e \in S}

NoDa == [crs |-> "none"]

RasterInit ==
    /\ rpc = "start"
    /\ rexc = "none"
    /\ call \in {"load_clip_reproject", "merge_tiles"}
    /\ tile_paths \in SeqsUpTo(TileNames, MaxTiles)
    /\ call = "load_clip_reproject" => Len(tile_paths) = 1
    /\ boundary \in Boundaries
    /\ target_crs \in CRSs
    /\ scale_factor \in Scales
    /\ mask_nan \in BOOLEAN
    /\ call = "merge_tiles" => mask_nan
    /\ out_given \in BOOLEAN
    /\ call = "load_clip_reproject" => ~out_given
    /\ ti = 1
    /\ da = NoDa
    /\ bnd = boundary
    /\ processed = <<>>
    /\ merged = NoDa
    /\ mi = 1
    /\ rfs = [dir |-> FALSE, file |-> FALSE]

\* DataArray.squeeze(): the band dimension and any other of length 1 are dropped
Squeeze(r) ==
    [r EXCEPT !.dims = {d \in {"y", "x"} :
                          \/ d = "y" /\ Cardinality(r.ys) > 1
                          \/ d = "x" /\ Cardinality(r.xs) > 1}]

ShiftX(cells, dx) == {<<c[1], c[2] + dx>> : c \in cells}

\* boundary.to_crs(crs)
BoundaryToCrs(b, crs) ==
    [crs |-> crs, cells |-> ShiftX(b.cells, CrsOffset(crs) - CrsOffset(b.crs))]

Span(S) == {k \in 0..20 : \E a, b \in S : a <= k /\ k <= b}

Inside(r, b) == Cells(r.ys, r.xs) \cap b.cells

\* da.rio.clip(geometry, crs): cropped to the polygon's extent, NaN outside it
Clip(r, b) ==
    LET in == Inside(r, b)
        ys == Span({c[1] : c \in in}) \cap r.ys
        xs == Span({c[2] : c \in in}) \cap r.xs
    IN  [r EXCEPT !.ys = ys, !.xs = xs,
                  !.v = [c \in Cells(ys, xs) |-> IF c \in b.cells THEN r.v[c] ELSE NaN]]

\* clipped.rio.reproject(target_crs)
Reproject(r, crs) ==
    LET dx == CrsOffset(crs) - CrsOffset(r.crs)
        xs == {x + dx : x \in r.xs}
    IN  [r EXCEPT !.crs = crs, !.xs = xs,
                  !.v = [c \in Cells(r.ys, xs) |-> r.v[<<c[1], c[2] - dx>>]]]

\* mutant of Scale: the quotient is rebuilt from the values without coordinates
ScaleDropsCrs(r, f) ==
    [r EXCEPT !.crs = "none", !.attrs = {},
              !.v = [c \in DOMAIN r.v |-> FDiv(r.v[c], f)]]

\* reprojected / scale_factor: coordinates (spatial_ref) kept, attrs dropped
Scale(r, f) ==
    [r EXCEPT !.attrs = {}, !.v = [c \in DOMAIN r.v |-> FDiv(r.v[c], f)]]

\* reprojected.where(~reprojected.isnull(), other=full_like(reprojected, nan))
MaskNaN(r) ==
    [r EXCEPT !.v = [c \in DOMAIN r.v |-> IF ~IsNaN(r.v[c]) THEN r.v[c] ELSE NaN]]

\* mutant of CombineFirst: the coordinates are joined inner instead of outer
CombineFirstInner(a, b) ==
    LET ys == a.ys \cap b.ys
        xs == a.xs \cap b.xs
    IN  [a EXCEPT !.ys = ys, !.xs = xs,
                  !.v = [c \in Cells(ys, xs) |->
                            IF ~IsNaN(a.v[c]) THEN a.v[c] ELSE b.v[c]]]

\* a.combine_first(b): outer join of the coordinates, a's value where it has one
CombineFirst(a, b) ==
    LET ys == a.ys \cup b.ys
        xs == a.xs \cup b.xs
        va(c) == IF c \in DOMAIN a.v THEN a.v[c] ELSE NaN
        vb(c) == IF c \in DOMAIN b.v THEN b.v[c] ELSE NaN
    IN  [a EXCEPT !.ys = ys, !.xs = xs,
                  !.v = [c \in Cells(ys, xs) |->
                            IF ~IsNaN(va(c)) THEN va(c) ELSE vb(c)]]

rArgs == <<call, tile_paths, boundary, target_crs, scale_factor, mask_nan, out_given>>

\* merge_tiles: "for p in tile_paths" enters load_clip_reproject, or the loop ends
Start ==
    /\ rpc = "start"
    /\ \/ /\ ti <= Len(tile_paths)
          /\ rpc' = "open"
          /\ bnd' = boundary
          /\ UNCHANGED <<rexc, merged>>
       \/ /\ ti > Len(tile_paths)
          /\ call = "merge_tiles"
          /\ \/ /\ processed = <<>>
                /\ rpc' = "raised"
                /\ rexc' = "IndexError"
                /\ UNCHANGED merged
             \/ /\ processed # <<>>
                /\ merged' = processed[1]
                /\ rpc' = "merge"
                /\ UNCHANGED rexc
          /\ UNCHANGED bnd
    /\ UNCHANGED <<rArgs, ti, da, processed, mi, rfs>>
    /\ UNCHANGED rasterOthers

\* da = rxr.open_rasterio(raster_path, masked=True).squeeze()
LcrOpen ==
    /\ rpc = "open"
    /\ da' = Squeeze(TileFile(tile_paths[ti]))
    /\ rpc' = "boundary"
    /\ UNCHANGED <<rArgs, rexc, ti, bnd, processed, merged, mi, rfs>>
    /\ UNCHANGED rasterOthers

\* if boundary.crs != da.rio.crs: boundary = boundary.to_crs(da.rio.crs)
LcrBoundary ==
    /\ rpc = "boundary"
    /\ \/ /\ bnd.crs # da.crs
          /\ bnd' = BoundaryToCrs(bnd, da.crs)
       \/ /\ bnd.crs = da.crs
          /\ UNCHANGED bnd
    /\ rpc' = "clip"
    /\ UNCHANGED <<rArgs, rexc, ti, da, processed, merged, mi, rfs>>
    /\ UNCHANGED rasterOthers

\* clipped = da.rio.clip(boundary.geometry, boundary.crs)
LcrClip ==
    /\ rpc = "clip"
    /\ \/ /\ {"y", "x"} \subseteq da.dims
          /\ Inside(da, bnd) # {}
          /\ da' = Clip(da, bnd)
          /\ rpc' = "reproject"
          /\ UNCHANGED rexc
       \/ /\ {"y", "x"} \subseteq da.dims
          /\ Inside(da, bnd) = {}
          /\ rpc' = "raised"
          /\ rexc' = "NoDataInBounds"
          /\ UNCHANGED da
       \/ /\ ~({"y", "x"} \subseteq da.dims)
          /\ rpc' = "raised"
          /\ rexc' = "MissingSpatialDimensionError"
          /\ UNCHANGED da
    /\ UNCHANGED <<rArgs, ti, bnd, processed, merged, mi, rfs>>
    /\ UNCHANGED rasterOthers

\* reprojected = clipped.rio.reproject(target_crs)
LcrReproject ==
    /\ rpc = "reproject"
    /\ da' = Reproject(da, target_crs)
    /\ rpc' = "scale"
    /\ UNCHANGED <<rArgs, rexc, ti, bnd, processed, merged, mi, rfs>>
    /\ UNCHANGED rasterOthers

\* if scale_factor != 1.0: reprojected = reprojected / scale_factor
LcrScale ==
    /\ rpc = "scale"
    /\ \/ /\ scale_factor # R(1, 1)
          /\ da' = Scale(da, scale_factor)
       \/ /\ scale_factor = R(1, 1)
          /\ UNCHANGED da
    /\ rpc' = "mask"
    /\ UNCHANGED <<rArgs, rexc, ti, bnd, processed, merged, mi, rfs>>
    /\ UNCHANGED rasterOthers

\* if mask_nan: reprojected = reprojected.where(...)
LcrMask ==
    /\ rpc = "mask"
    /\ \/ /\ mask_nan
          /\ da' = MaskNaN(da)
       \/ /\ ~mask_nan
          /\ UNCHANGED da
    /\ rpc' = "return"
    /\ UNCHANGED <<rArgs, rexc, ti, bnd, processed, merged, mi, rfs>>
    /\ UNCHANGED rasterOthers

\* return reprojected; in merge_tiles: processed.append(...)
LcrReturn ==
    /\ rpc = "return"
    /\ \/ /\ call = "load_clip_reproject"
          /\ rpc' = "done"
          /\ UNCHANGED <<processed, ti>>
       \/ /\ call = "merge_tiles"
          /\ processed' = Append(processed, da)
          /\ ti' = ti + 1
          /\ rpc' = "start"
    /\ UNCHANGED <<rArgs, rexc, da, bnd, merged, mi, rfs>>
    /\ UNCHANGED rasterOthers

\* for other in processed[1:]: merged = merged.combine_first(other)
MergeStep ==
    /\ rpc = "merge"
    /\ mi < Len(processed)
    /\ merged' = CombineFirst(merged, processed[mi + 1])
    /\ mi' = mi + 1
    /\ UNCHANGED <<rArgs, rpc, rexc, ti, da, bnd, processed, rfs>>
    /\ UNCHANGED rasterOthers

\* if out_path: ensure_dir(...); merged.rio.to_raster(...); return merged
MergeFinish ==
    /\ rpc = "merge"
    /\ mi >= Len(processed)
    /\ \/ /\ out_given
          /\ rfs' = [dir |-> TRUE, file |-> TRUE]
       \/ /\ ~out_given
          /\ UNCHANGED rfs
    /\ rpc' = "done"
    /\ UNCHANGED <<rArgs, rexc, ti, da, bnd, processed, merged, mi>>
    /\ UNCHANGED rasterOthers

RasterNext ==
    \/ Start \/ LcrOpen \/ LcrBoundary \/ LcrClip \/ LcrReproject
    \/ LcrScale \/ LcrMask \/ LcrReturn \/ MergeStep \/ MergeFinish


\* ------------------------------------------------- ProductDownloader
MaxDates == 2

MaxFaults == 2

\* self.products and self.tiles: dicts, iterated in insertion order
ProductLists == {<<>>, <<"LAI">>, <<"LAI", "FAPAR">>}

TileLists == {<<>>, <<"T1">>, <<"T1", "T2">>}

\* self.dates: a list, which may name a date twice
DateLists == SeqsUpTo({"2020-05-01", "2020-05-11"}, MaxDates)

\* what load_collection, os.path.join or cube.download may raise
DlErrors == {"OpenEoApiError", "ConnectionError", "KeyError"}

DlInit ==
    /\ dpc = "for_product"
    /\ products \in ProductLists
    /\ tiles \in TileLists
    /\ dates \in DateLists
    /\ pidx = 1 /\ tidx = 1 /\ didx = 1
    /\ attempts = <<>>
    /\ saved = {}
    /\ failed = <<>>
    /\ faults = 0

\* mutant of DlCatches: the handler names one exception class only
DlCatchesApiErrorOnly(e) == e = "OpenEoApiError"

\* except Exception as e
DlCatches(e) == e \in DlErrors

Combo == <<products[pidx], tiles[tidx], dates[didx]>>

\* for product_name, info in self.products.items()
ForProduct ==
    /\ dpc = "for_product"
    /\ \/ /\ pidx <= Len(products)
          /\ tidx' = 1
          /\ dpc' = "for_tile"
       \/ /\ pidx > Len(products)
          /\ dpc' = "done"
          /\ UNCHANGED tidx
    /\ UNCHANGED <<products, tiles, dates, pidx, didx, attempts, saved, failed, faults>>
    /\ UNCHANGED dlOthers

\* for tile_id, bbox in self.tiles.items()
ForTile ==
    /\ dpc = "for_tile"
    /\ \/ /\ tidx <= Len(tiles)
          /\ didx' = 1
          /\ dpc' = "for_date"
          /\ UNCHANGED pidx
       \/ /\ tidx > Len(tiles)
          /\ pidx' = pidx + 1
          /\ dpc' = "for_product"
          /\ UNCHANGED didx
    /\ UNCHANGED <<products, tiles, dates, tidx, attempts, saved, failed, faults>>
    /\ UNCHANGED dlOthers

\* for date in self.dates: self._download_single_product(...) is entered
ForDate ==
    /\ dpc = "for_date"
    /\ \/ /\ didx <= Len(dates)
          /\ attempts' = Append(attempts, Combo)
          /\ dpc' = "load_collection"
          /\ UNCHANGED tidx
       \/ /\ didx > Len(dates)
          /\ tidx' = tidx + 1
          /\ dpc' = "for_tile"
          /\ UNCHANGED attempts
    /\ UNCHANGED <<products, tiles, dates, pidx, didx, saved, failed, faults>>
    /\ UNCHANGED dlOthers

\* an exception e raised inside the try block of _download_single_product
DlRaise(e) ==
    /\ faults < MaxFaults
    /\ faults' = faults + 1
    /\ \/ /\ DlCatches(e)
          /\ failed' = Append(failed, Combo)
          /\ didx' = didx + 1
          /\ dpc' = "for_date"
       \/ /\ ~DlCatches(e)
          /\ dpc' = "raised"
          /\ UNCHANGED <<failed, didx>>

\* cube = self.connection.load_collection(...)
DlLoadCollection ==
    /\ dpc = "load_collection"
    /\ \/ /\ dpc' = "download"
          /\ UNCHANGED <<didx, failed, faults>>
       \/ \E e \in DlErrors : DlRaise(e)
    /\ UNCHANGED <<products, tiles, dates, pidx, tidx, attempts, saved>>
    /\ UNCHANGED dlOthers

\* cube.download(full_path, format="GTiff")
DlDownload ==
    /\ dpc = "download"
    /\ \/ /\ saved' = saved \cup {Combo}
          /\ didx' = didx + 1
          /\ dpc' = "for_date"
          /\ UNCHANGED <<failed, faults>>
       \/ /\ \E e \in DlErrors : DlRaise(e)
          /\ UNCHANGED saved
    /\ UNCHANGED <<products, tiles, dates, pidx, tidx, attempts>>
    /\ UNCHANGED dlOthers

DlNext == ForProduct \/ ForTile \/ ForDate \/ DlLoadCollection \/ DlDownload

\* -------------------------------------------------------- validation
MaxVals == 2

Validators == {"validate_raster_crs", "validate_estk_classes", "validate_data_range"}

None == <<"None">>

\* the raster on disk: missing, or its CRS (possibly none) and its values
ValFiles ==
    {[exists |-> FALSE, crs |-> "None", vals |-> <<>>]} \cup
    [exists : {TRUE}, crs : CRSs \cup {"None"},
     vals : SeqsUpTo({R(10, 1), R(20, 1), NaN}, MaxVals) \ {<<>>}]

Limits == {None, R(0, 1), R(15, 1)}

ValInit ==
    /\ vpc = "try"
    /\ vfn \in Validators
    /\ vfile \in ValFiles
    /\ path_is_str \in BOOLEAN
    /\ xr_has_open_rasterio \in BOOLEAN
    /\ vfn = "validate_raster_crs" => xr_has_open_rasterio
    /\ expected_crs \in CRSs
    /\ vfn # "validate_raster_crs" => expected_crs = "EPSG:32631"
    /\ expected_classes \in SUBSET {10, 20}
    /\ vfn # "validate_estk_classes" => expected_classes = {}
    /\ min_val \in Limits
    /\ max_val \in Limits
    /\ vfn # "validate_data_range" => (min_val = None /\ max_val = None)
    /\ vret = "none"
    /\ vexc = "none"

\* mutant of ValCatches: only a failed open is handled
ValCatchesIOErrorOnly(e) == e = "RasterioIOError"

\* except Exception as e
ValCatches(e) == e \in {"RasterioIOError", "AttributeError", "ValueError"}

\* an exception e raised inside the try block: the handler logs and returns False
ValRaise(e) ==
    \/ /\ ValCatches(e)
       /\ vret' = FALSE
       /\ vpc' = "done"
       /\ UNCHANGED vexc
    \/ /\ ~ValCatches(e)
       /\ vexc' = e
       /\ vpc' = "raised"
       /\ UNCHANGED vret

vArgs == <<vfn, vfile, path_is_str, xr_has_open_rasterio, expected_crs,
           expected_classes, min_val, max_val>>

\* rasterio.open(path) / xr.open_rasterio(path)
ValOpen ==
    /\ vpc = "try"
    /\ \/ /\ vfn # "validate_raster_crs"
          /\ ~xr_has_open_rasterio
          /\ ValRaise("AttributeError")
       \/ /\ vfn = "validate_raster_crs" \/ xr_has_open_rasterio
          /\ ~vfile.exists
          /\ ValRaise("RasterioIOError")
       \/ /\ vfn = "validate_raster_crs" \/ xr_has_open_rasterio
          /\ vfile.exists
          /\ vpc' = "check"
          /\ UNCHANGED <<vret, vexc>>
    /\ UNCHANGED vArgs
    /\ UNCHANGED valOthers

\* the body's result; logging raster_path.name raises for a str path
ValReturn(b) ==
    \/ /\ path_is_str
       /\ ValRaise("AttributeError")
    \/ /\ ~path_is_str
       /\ vret' = b
       /\ vpc' = "done"
       /\ UNCHANGED vexc

\* raster_crs != expected_crs
CrsMismatch == vfile.crs # expected_crs

\* [cls for cls in expected_classes if cls not in present_classes]
MissingClasses ==
    LET present == EstkClasses(vfile.vals)
    IN  {c \in expected_classes : \A k \in DOMAIN present : present[k] # c}

RECURSIVE NanFold(_, _)
\* np.nanmin (less = TRUE) or np.nanmax of a non-empty array; NaN if all are NaN
NanFold(s, less) ==
    IF Len(s) = 1 THEN s[1]
    ELSE LET rest == NanFold(Tail(s), less)
             h == Head(s)
         IN  IF IsNaN(h) THEN rest
             ELSE IF IsNaN(rest) THEN h
             ELSE IF less THEN (IF FLess(h, rest) THEN h ELSE rest)
             ELSE (IF FLess(rest, h) THEN h ELSE rest)

BelowMin == min_val # None /\ FLess(NanFold(vfile.vals, TRUE), min_val)

AboveMax == max_val # None /\ FLess(max_val, NanFold(vfile.vals, FALSE))

ValCheckCrs ==
    /\ vpc = "check"
    /\ vfn = "validate_raster_crs"
    /\ ValReturn(~CrsMismatch)
    /\ UNCHANGED vArgs
    /\ UNCHANGED valOthers

ValCheckClasses ==
    /\ vpc = "check"
    /\ vfn = "validate_estk_classes"
    /\ ValReturn(MissingClasses = {})
    /\ UNCHANGED vArgs
    /\ UNCHANGED valOthers

ValCheckRange ==
    /\ vpc = "check"
    /\ vfn = "validate_data_range"
    /\ ValReturn(~(BelowMin \/ AboveMax))
    /\ UNCHANGED vArgs
    /\ UNCHANGED valOthers

ValNext == ValOpen \/ ValCheckCrs \/ ValCheckClasses \/ ValCheckRange


\* ---------------------------------------------------- specifications
\* Each specification runs one entry point; the state of the others is parked.
NppParked ==
    /\ npc = "idle" /\ exc = "none"
    /\ conversion_df = <<>> /\ missing = {}
    /\ files = <<>>
    /\ lai = NoRaster /\ fapar = NoRaster /\ temp = NoRaster
    /\ ssrd = NoRaster /\ estk = NoRaster
    /\ npp_result = NoRaster /\ valid_classes = <<>> /\ ci = 1
    /\ fs = [dir |-> FALSE, file |-> FALSE] /\ fs0 = fs

RasterParked ==
    /\ rpc = "idle" /\ rexc = "none" /\ call = "none"
    /\ tile_paths = <<>> /\ boundary = NoDa /\ target_crs = "none"
    /\ scale_factor = R(1, 1) /\ mask_nan = TRUE /\ out_given = FALSE
    /\ ti = 1 /\ da = NoDa /\ bnd = NoDa /\ processed = <<>>
    /\ merged = NoDa /\ mi = 1
    /\ rfs = [dir |-> FALSE, file |-> FALSE]

DlParked ==
    /\ dpc = "idle" /\ products = <<>> /\ tiles = <<>> /\ dates = <<>>
    /\ pidx = 1 /\ tidx = 1 /\ didx = 1
    /\ attempts = <<>> /\ saved = {} /\ failed = <<>> /\ faults = 0

ValParked ==
    /\ vpc = "idle" /\ vfn = "none"
    /\ vfile = [exists |-> FALSE, crs |-> "None", vals |-> <<>>]
    /\ path_is_str = FALSE /\ xr_has_open_rasterio = TRUE
    /\ expected_crs = "EPSG:32631" /\ expected_classes = {}
    /\ min_val = None /\ max_val = None
    /\ vret = "none" /\ vexc = "none"

InitNpp == NppInit /\ RasterParked /\ DlParked /\ ValParked

SpecNpp == InitNpp /\ [][NppNext]_vars

InitRaster == RasterInit /\ NppParked /\ DlParked /\ ValParked

SpecRaster == InitRaster /\ [][RasterNext]_vars

InitDownload == DlInit /\ NppParked /\ RasterParked /\ ValParked

SpecDownload == InitDownload /\ [][DlNext]_vars

InitValidation == ValInit /\ NppParked /\ RasterParked /\ DlParked

SpecValidation == InitValidation /\ [][ValNext]_vars


\* ------------------------------------------------- raster_ops claims
\* the valid-data footprint of a raster: the coordinates of its non-NaN pixels
Valid(r) == {c \in DOMAIN r.v : ~IsNaN(r.v[c])}

MergeReturned == rpc = "done" /\ call = "merge_tiles"

\* C5: merging two tiles whose valid footprints do not overlap gives a raster
\* whose valid pixels are exactly the union of the valid pixels of the two
\* processed (clipped, reprojected, scaled) tiles, each with its tile's value.
C5_DisjointUnion ==
    (MergeReturned /\ Len(processed) = 2
        /\ Valid(processed[1]) \cap Valid(processed[2]) = {}) =>
        /\ Valid(merged) = Valid(processed[1]) \cup Valid(processed[2])
        /\ \A k \in 1..2 : \A c \in Valid(processed[k]) :
              merged.v[c] = processed[k].v[c]

\* two tiles side by side, both with data inside the boundary
C5_Witness ==
    /\ MergeReturned
    /\ Len(processed) = 2
    /\ Valid(processed[1]) # {}
    /\ Valid(processed[2]) # {}
    /\ Valid(processed[1]) \cap Valid(processed[2]) = {}
    /\ merged.xs # processed[1].xs

Perms(n) == {f \in [1..n -> 1..n] : \A i, j \in 1..n : f[i] = f[j] => i = j}

RECURSIVE MergeFrom(_, _, _, _)
\* merge_tiles' fold over the processed tiles taken in the order f
MergeFrom(acc, ps, f, i) ==
    IF i > Len(ps) THEN acc
    ELSE MergeFrom(CombineFirst(acc, ps[f[i]]), ps, f, i + 1)

MergedInOrder(ps, f) == MergeFrom(ps[f[1]], ps, f, 2)

\* C6: the order of tile_paths is not important: every permutation of the
\* tiles gives the same merged pixel values.
C6_OrderIrrelevant ==
    MergeReturned =>
        \A f \in Perms(Len(processed)) : MergedInOrder(processed, f).v = merged.v

\* C9: the raster load_clip_reproject returns has target_crs as its CRS and at
\* least one row, whatever scale_factor and mask_nan are; scaling and masking
\* leave the CRS the reprojection set.
C9_ReprojectedCrs ==
    /\ rpc \in {"scale", "mask", "return"} => da.crs = target_crs
    /\ rpc = "return" \/ (rpc = "done" /\ call = "load_clip_reproject") =>
          /\ da.crs = target_crs
          /\ "y" \in da.dims
          /\ Cardinality(da.ys) >= 1

\* returned after a reprojection to another CRS, a division by 100 and no masking
C9_Witness ==
    /\ rpc = "done"
    /\ call = "load_clip_reproject"
    /\ scale_factor = R(100, 1)
    /\ ~mask_nan
    /\ TileFile(tile_paths[1]).crs # target_crs
    /\ da.crs = target_crs
    /\ \E c \in DOMAIN da.v : da.v[c] = R(111, 100)

\* ------------------------------------------------- downloader claims
\* the combinations in the order products, then tiles, then dates
ExpectedAttempts ==
    LET T == Len(tiles)
        D == Len(dates)
    IN  [n \in 1..(Len(products) * T * D) |->
            <<products[((n - 1) \div (T * D)) + 1],
              tiles[(((n - 1) \div D) % T) + 1],
              dates[((n - 1) % D) + 1]>>]

IsPrefix(a, b) == Len(a) <= Len(b) /\ \A i \in 1..Len(a) : a[i] = b[i]

\* C7: download_all attempts every (product, tile, date entry) once, products
\* first, then tiles, then dates; no exception of a load or a download leaves
\* _download_single_product, stops the iteration or leaves download_all.
C7_EveryCombinationAttempted ==
    /\ dpc # "raised"
    /\ IsPrefix(attempts, ExpectedAttempts)
    /\ dpc = "done" => attempts = ExpectedAttempts
    /\ dpc = "done" =>
          \A n \in 1..Len(attempts) :
              \/ attempts[n] \in saved
              \/ \E k \in 1..Len(failed) : failed[k] = attempts[n]
    /\ dpc \notin {"done", "idle"} => ENABLED DlNext

\* the first two of eight downloads failed and the last one was still saved
C7_Witness ==
    /\ dpc = "done"
    /\ Len(attempts) = 8
    /\ dates[1] # dates[2]
    /\ Len(failed) = 2
    /\ failed[1] = attempts[1]
    /\ failed[2] = attempts[2]
    /\ attempts[8] \in saved

\* ------------------------------------------------- validation claims
OpenOrReadFails ==
    \/ ~vfile.exists
    \/ vfn # "validate_raster_crs" /\ ~xr_has_open_rasterio

\* C8: no validator lets an exception out: each call ends by returning a
\* boolean, which is False whenever opening or reading the raster failed.
C8_ValidatorsReturnBool ==
    /\ vpc # "raised"
    /\ vexc = "none"
    /\ vpc = "done" => vret \in BOOLEAN
    /\ (vpc = "done" /\ OpenOrReadFails) => vret = FALSE
    /\ vpc \in {"try", "check"} => ENABLED ValNext

\* validate_data_range on a missing file has returned False
C8_Witness ==
    /\ vpc = "done"
    /\ vfn = "validate_data_range"
    /\ ~vfile.exists
    /\ min_val # None
    /\ vret = FALSE


\* ------------------------------------------ temperature factor claim
\* x <= y for numbers that are not NaN
FLeq(x, y) == ~IsNaN(x) /\ ~IsNaN(y) /\ ~FLess(y, x)

\* pixel i has a class of the table, finite temperature, FAPAR and radiation,
\* and its class's row has T_min < T_max
FinitePixelOfValidClass(i) ==
    /\ HasTableClass(estk[i])
    /\ IsFinite(temp[i]) /\ IsFinite(fapar[i]) /\ IsFinite(ssrd[i])
    /\ FLess(conversion_df[TableClassOf(estk[i])].T_min,
             conversion_df[TableClassOf(estk[i])].T_max)

\* C11: the temperature factor is never negative: at a pixel of a valid class
\* with finite inputs and T_min < T_max, T <= T_min or T >= T_max gives factor
\* 0 and NPP exactly 0, and with eps_max, FAPAR and radiation >= 0 the NPP is
\* a number >= 0.
C11_FactorNeverNegative ==
    Returned =>
        \A i \in DOMAIN estk :
            FinitePixelOfValidClass(i) =>
                LET row == conversion_df[TableClassOf(estk[i])]
                    factor == TempFactor(temp[i], row.T_min, row.T_max)
                    outside == FLeq(temp[i], row.T_min) \/ FLeq(row.T_max, temp[i])
                IN  /\ FLeq(Zero, factor)
                    /\ outside => (factor = Zero /\ npp_result[i] = Zero)
                    /\ (FLeq(Zero, row.eps_max) /\ FLeq(Zero, fapar[i])
                          /\ FLeq(Zero, ssrd[i])) => FLeq(Zero, npp_result[i])

\* one pixel below T_min (15 read as Kelvin: -258.15 degrees) and one of class
\* 20 at 15 degrees, above its T_max of 10: both hold NPP 0
C11_Witness ==
    /\ Returned
    /\ \E i, j \in DOMAIN estk :
          /\ FinitePixelOfValidClass(i)
          /\ temp[i] = R(-5163, 20)
          /\ npp_result[i] = Zero
          /\ FinitePixelOfValidClass(j)
          /\ estk[j] = R(20, 1)
          /\ temp[j] = R(15, 1)
          /\ npp_result[j] = Zero


\* ------------------------------------------------- class loop claim
\* the pixels iteration k of "for cls in valid_classes" writes: its mask
WrittenBy(k) == {i \in DOMAIN estk : ClassMask(estk, valid_classes[k])[i]}

RECURSIVE RunClasses(_, _, _)
\* the loop over the classes taken in the order given, from iteration k on
RunClasses(result, order, k) ==
    IF k > Len(order) THEN result
    ELSE LET cls == order[k]
             mask == ClassMask(estk, cls)
         IN  RunClasses(IF MaskSum(mask) = 0 THEN result
                        ELSE InsertClass(result, mask, NppClass(cls, mask)),
                        order, k + 1)

InLoopOrAfter == npc \in {"loop", "to_raster", "done"}

\* the masks of any two iterations that have run are disjoint
IterationMasksDisjoint ==
    \A k1, k2 \in 1..(ci - 1) :
        k1 < k2 => WrittenBy(k1) \cap WrittenBy(k2) = {}

\* the returned raster is what the loop gives in every order of valid_classes
AnyOrderSameRaster ==
    \A f \in Perms(Len(valid_classes)) :
        RunClasses(InitResult(lai),
                   [k \in 1..Len(valid_classes) |-> valid_classes[f[k]]], 1)
            = npp_result

C12_DistinctCodesDisjoint ==
    InLoopOrAfter =>
        \A k1, k2 \in 1..(ci - 1) :
            valid_classes[k1] # valid_classes[k2] =>
                WrittenBy(k1) \cap WrittenBy(k2) = {}

C12_OrderIndependent == Returned => AnyOrderSameRaster

=============================================================================
